---- MODULE Spec2Model ----
(***************************************************************************)
(* Model of scripts/sync_commands.py: the provider-sync utility that       *)
(* normalizes provider files, resolves a primary provider, detects sync    *)
(* conflicts and propagates the primary body to every provider file.       *)
(*                                                                         *)
(* Text is a sequence of one-character strings.  A provider file is a      *)
(* record [exists, content, mtime]; an absent file is AbsentFile.          *)
(*                                                                         *)
(* The last part models the tool layer of gmail_mcp_server/server.py: the  *)
(* position-to-id map kept across list_unread_emails, delete_email and     *)
(* archive_email tool calls.                                               *)
(***************************************************************************)
EXTENDS Integers, Sequences, FiniteSets, TLC

\* ----- bounds of the model -----
MaxFileLen == 2     \* longest provider file content at start
MaxRuns    == 1     \* re-invocations of the tool in SpecRerun
MaxClock   == 3     \* latest wall-clock reading of time.time()
MaxNormLen == 3     \* longest text given to the normalizer
MaxEmails  == 2     \* longest result of gmail_client.list_unread_emails

ExitOk        == 0  \* main: return 0
ExitSyncError == 1  \* main: return 1 in the SyncError handler
ExitUsage     == 2  \* main: return 2

InitialMtimes == {1, 2}
\* wall-clock reading when the first invocation starts: the newest initial mtime
StartClock == CHOOSE t \in InitialMtimes : \A u \in InitialMtimes : u <= t
NL         == "\n"

ProviderNames == {"claude", "cursor"}
FileChars     == {"a", "b"}
HeaderSet     == {<< >>, <<"a">>}
FooterSet     == {<< >>, <<"b">>}
Policies      == {"auto", "claude"}

VARIABLES
    providers,          \* CommandSpec.providers: sequence of ProviderSpec, in dict order
    primary_policy,     \* load_config's second result
    files,              \* the disk: provider name -> file
    now,                \* last reading of time.time()
    pc,                 \* position of main / sync_command
    dry_run,            \* args.dry_run of the running invocation
    provider_contents,  \* sync_command locals (snapshot)
    provider_bodies,
    mtimes,
    primary,
    primary_body,
    idx,                \* position of the propagation loop
    err,                \* what was printed to stderr
    exit_code,          \* value returned by main
    files0,             \* history: the disk when the invocation started
    written,            \* history: providers written by this invocation
    prev,               \* history: summary of the previous invocation
    runs,               \* history: number of invocations started
    text_reads,         \* history: read_text calls per provider in this invocation
    stat_reads,         \* history: stat() calls per provider in this invocation
    late_read,          \* history: a provider file was read after a write
    nstep, nx, np, nres, nres2, nasm, nrt,  \* normalizer harness
    email_position_map, \* GmailMCPServer.email_position_map
    tool_call,          \* history: name and arguments of the last tool call
    tool_result,        \* history: what the last tool call returned and asked of Gmail
    map0,               \* history: email_position_map before the last tool call
    last_list           \* history: emails of the most recent list call

vars == << providers, primary_policy, files, now, pc, dry_run,
           provider_contents, provider_bodies, mtimes, primary, primary_body,
           idx, err, exit_code, files0, written, prev, runs,
           text_reads, stat_reads, late_read,
           nstep, nx, np, nres, nres2, nasm, nrt,
           email_position_map, tool_call, tool_result, map0, last_list >>

syncVars == << files, now, pc, dry_run, provider_contents, provider_bodies,
               mtimes, primary, primary_body, idx, err, exit_code, files0,
               written, prev, runs, text_reads, stat_reads, late_read >>
readVars == << text_reads, stat_reads, late_read >>
normVars == << nstep, nx, np, nres, nres2, nasm, nrt >>
serverVars == << email_position_map, tool_call, tool_result, map0, last_list >>

\* ----- text helpers (Python str methods) -----
Str(chars, n) == UNION { [1..k -> chars] : k \in 0..n }

StartsWith(s, p) == Len(p) <= Len(s) /\ SubSeq(s, 1, Len(p)) = p
EndsWith(s, p)   == Len(p) <= Len(s) /\ SubSeq(s, Len(s) - Len(p) + 1, Len(s)) = p
DropFirst(s, n)  == SubSeq(s, n + 1, Len(s))
DropLast(s, n)   == SubSeq(s, 1, Len(s) - n)

RECURSIVE rstrip_nl(_)
rstrip_nl(s) == IF s # << >> /\ s[Len(s)] = NL THEN rstrip_nl(DropLast(s, 1)) ELSE s

RECURSIVE lstrip_nl(_)
lstrip_nl(s) == IF s # << >> /\ s[1] = NL THEN lstrip_nl(DropFirst(s, 1)) ELSE s

\* ----- files -----
AbsentFile == [exists |-> FALSE, content |-> << >>, mtime |-> 0]

read_text(f) == IF f.exists THEN f.content ELSE << >>

stat_mtime(f) == IF f.exists THEN f.mtime ELSE 0

\* ----- Content Normalizer -----
strip_header(content, header) ==
    IF header = << >> THEN content
    ELSE IF StartsWith(content, header) THEN DropFirst(content, Len(header))
    ELSE IF StartsWith(content, rstrip_nl(header) \o <<NL>>)
         THEN DropFirst(content, Len(rstrip_nl(header)) + 1)
    ELSE content

\* slip: keeps the first len(footer) characters instead of dropping the last ones
strip_footer_keeps_prefix(content, footer) ==
    IF footer = << >> THEN content
    ELSE IF EndsWith(content, footer) THEN SubSeq(content, 1, Len(footer))
    ELSE IF EndsWith(content, <<NL>> \o lstrip_nl(footer))
         THEN DropLast(content, Len(lstrip_nl(footer)) + 1)
    ELSE content

strip_footer(content, footer) ==
    IF footer = << >> THEN content
    ELSE IF EndsWith(content, footer) THEN DropLast(content, Len(footer))
    ELSE IF EndsWith(content, <<NL>> \o lstrip_nl(footer))
         THEN DropLast(content, Len(lstrip_nl(footer)) + 1)
    ELSE content

get_body_from_provider_content(provider, content, header, footer) ==
    strip_footer(strip_header(content, header), footer)

RECURSIVE strip_from(_, _, _)
strip_from(normalized, provs, i) ==
    IF i > Len(provs) \/ normalized = << >> THEN normalized
    ELSE strip_from(get_body_from_provider_content(provs[i].name, normalized,
                        provs[i].header, provs[i].footer), provs, i + 1)

strip_known_wrappers(content, provs) == strip_from(content, provs, 1)

\* slip: the footer is left out
assemble_without_footer(header, body, footer) == header \o body

assemble_provider_content(header, body, footer) == header \o body \o footer

\* ----- Primary Resolver -----
NameSet(provs) == { provs[i].name : i \in 1..Len(provs) }

\* slip: < instead of >, so the oldest existing provider is picked
RECURSIVE auto_candidate_oldest(_, _, _, _)
auto_candidate_oldest(provs, disk, i, candidate) ==
    IF i > Len(provs) THEN candidate
    ELSE LET f == disk[provs[i].name]
         IN IF f.exists /\ (candidate = << >> \/ f.mtime < candidate[2])
            THEN auto_candidate_oldest(provs, disk, i + 1, << provs[i].name, f.mtime >>)
            ELSE auto_candidate_oldest(provs, disk, i + 1, candidate)

\* slip: >= instead of >, so the last maximal provider wins a tie
RECURSIVE auto_candidate_last(_, _, _, _)
auto_candidate_last(provs, disk, i, candidate) ==
    IF i > Len(provs) THEN candidate
    ELSE LET f == disk[provs[i].name]
         IN IF f.exists /\ (candidate = << >> \/ f.mtime >= candidate[2])
            THEN auto_candidate_last(provs, disk, i + 1, << provs[i].name, f.mtime >>)
            ELSE auto_candidate_last(provs, disk, i + 1, candidate)

RECURSIVE auto_candidate(_, _, _, _)
auto_candidate(provs, disk, i, candidate) ==
    IF i > Len(provs) THEN candidate
    ELSE LET f == disk[provs[i].name]
         IN IF f.exists /\ (candidate = << >> \/ f.mtime > candidate[2])
            THEN auto_candidate(provs, disk, i + 1, << provs[i].name, f.mtime >>)
            ELSE auto_candidate(provs, disk, i + 1, candidate)

detect_primary(provs, policy, disk) ==
    IF policy # "" /\ policy # "auto"
    THEN IF policy \notin NameSet(provs)
         THEN [raised |-> TRUE, name |-> policy]
         ELSE [raised |-> FALSE, name |-> policy]
    ELSE LET candidate == auto_candidate(provs, disk, 1, << >>)
         IN IF candidate = << >> THEN [raised |-> FALSE, name |-> "claude"]
            ELSE [raised |-> FALSE, name |-> candidate[1]]

\* the providers whose file detect_primary stats (lines 122-124)
detect_primary_stats(provs, policy, disk) ==
    IF policy # "" /\ policy # "auto" THEN {}
    ELSE { n \in NameSet(provs) : disk[n].exists }

\* ----- Conflict Detector -----
dict_get(d, k, default) == IF k \in DOMAIN d THEN d[k] ELSE default

\* slip: >= instead of >
conflicting_keys_not_older(provs, bodies, mt, prim, pbody) ==
    { p \in NameSet(provs) :
        /\ p # prim
        /\ bodies[p] # << >>
        /\ bodies[p] # pbody
        /\ mt[p] >= dict_get(mt, prim, 0) }

conflicting_keys(provs, bodies, mt, prim, pbody) ==
    { p \in NameSet(provs) :
        /\ p # prim
        /\ bodies[p] # << >>
        /\ bodies[p] # pbody
        /\ mt[p] > dict_get(mt, prim, 0) }

NoErr == [kind |-> "none", names |-> {}, primary |-> ""]

\* ----- initial states -----
ProviderLists ==
    { << [name |-> n, header |-> h, footer |-> f] >> :
        n \in ProviderNames, h \in HeaderSet, f \in FooterSet }
    \cup
    { << [name |-> n1, header |-> h1, footer |-> f1],
         [name |-> n2, header |-> h2, footer |-> f2] >> :
        n1 \in ProviderNames, n2 \in ProviderNames, h1 \in HeaderSet,
        h2 \in HeaderSet, f1 \in FooterSet, f2 \in FooterSet }

FileStates ==
    {AbsentFile} \cup
    [exists : {TRUE}, content : Str(FileChars, MaxFileLen), mtime : InitialMtimes]

NoPrev == [valid |-> FALSE, dry |-> FALSE, start |-> << >>,
           end |-> << >>, err |-> NoErr, exit_code |-> -1, written |-> {}]

NoReads(provs) == [n \in NameSet(provs) |-> 0]

EmptyTexts(provs) == [n \in NameSet(provs) |-> << >>]

NormIdle ==
    /\ nstep = "off" /\ nx = << >> /\ np = 0
    /\ nres = << >> /\ nres2 = << >> /\ nasm = << >> /\ nrt = << >>

\* ----- tool layer: values -----
MessageIds == {"m1", "m2"}
ToolNames  == {"list_unread_emails", "delete_email", "archive_email"}

\* arguments.get("message_id") / arguments.get("position"): has_* is FALSE when
\* the key is absent (or arguments is None), and get() then gives None
ToolArguments ==
    { a \in [has_message_id : BOOLEAN, message_id : MessageIds \cup {""},
             has_position : BOOLEAN, position : 0..(MaxEmails + 1)] :
        /\ (~a.has_message_id => a.message_id = "")
        /\ (~a.has_position => a.position = 0) }

NoArguments == [has_message_id |-> FALSE, message_id |-> "",
                has_position |-> FALSE, position |-> 0]

\* results of gmail_client.list_unread_emails: the ids of the emails, in order
EmailLists ==
    { l \in UNION { [1..k -> MessageIds] : k \in 0..MaxEmails } :
        \A i \in DOMAIN l : \A j \in DOMAIN l : l[i] = l[j] => i = j }

NoCall   == [name |-> "", arguments |-> NoArguments]
NoResult == [kind |-> "none", client_op |-> "", client_id |-> "", requested |-> FALSE]

\* GmailMCPServer.__init__
ServerIdle ==
    /\ email_position_map = << >>
    /\ tool_call = NoCall
    /\ tool_result = NoResult
    /\ map0 = << >>
    /\ last_list = << >>

SyncIdle ==
    /\ now = StartClock
    /\ pc = "idle"
    /\ dry_run = FALSE
    /\ provider_contents = EmptyTexts(providers)
    /\ provider_bodies = EmptyTexts(providers)
    /\ mtimes = [n \in NameSet(providers) |-> 0]
    /\ primary = ""
    /\ primary_body = << >>
    /\ idx = 0
    /\ err = NoErr
    /\ exit_code = -1
    /\ files0 = files
    /\ written = {}
    /\ prev = NoPrev
    /\ runs = 0
    /\ text_reads = NoReads(providers)
    /\ stat_reads = NoReads(providers)
    /\ late_read = FALSE

Init ==
    /\ providers \in { pl \in ProviderLists : Cardinality(NameSet(pl)) = Len(pl) }
    /\ primary_policy \in Policies
    /\ files \in { d \in [ProviderNames -> FileStates] :
                     \A n \in ProviderNames \ NameSet(providers) : d[n] = AbsentFile }
    /\ SyncIdle
    /\ NormIdle
    /\ ServerIdle

\* ----- main: one CLI invocation -----
UsageKinds == {"config_not_found", "unknown_command"}

UsageError(kind) ==
    /\ pc = "idle"
    /\ pc' = "exited"
    /\ err' = [kind |-> kind, names |-> {}, primary |-> ""]
    /\ exit_code' = ExitUsage
    /\ files0' = files
    /\ UNCHANGED << providers, primary_policy, files, now, dry_run, provider_contents,
                    provider_bodies, mtimes, primary, primary_body, idx, written,
                    prev, runs, readVars, normVars, serverVars >>

\* main, lines 186-189: the config file does not exist
MainConfigMissing == UsageError("config_not_found")

\* main, lines 191-194: the command is not defined in the config
MainUnknownCommand == UsageError("unknown_command")

\* main calls sync_command, which gathers contents, mtimes and bodies
MainGather ==
    /\ pc = "idle"
    /\ files0' = files
    /\ \E d \in BOOLEAN : dry_run' = d
    /\ provider_contents' = [n \in NameSet(providers) |-> read_text(files[n])]
    /\ mtimes' = [n \in NameSet(providers) |-> stat_mtime(files[n])]
    /\ provider_bodies' =
         [n \in NameSet(providers) |-> strip_known_wrappers(read_text(files[n]), providers)]
    /\ text_reads' = [n \in NameSet(providers) |-> text_reads[n] + 1]
    /\ stat_reads' = [n \in NameSet(providers) |->
                        stat_reads[n] + (IF files[n].exists THEN 1 ELSE 0)]
    /\ late_read' = (late_read \/ written # {})
    /\ pc' = "loaded"
    /\ UNCHANGED << providers, primary_policy, files, now, primary, primary_body, idx,
                    err, exit_code, written, prev, runs, normVars, serverVars >>

\* sync_command line 147-150; SyncError is caught by main, which returns 1
ResolvePrimary ==
    /\ pc = "loaded"
    /\ LET r == detect_primary(providers, primary_policy, files)
       IN IF r.raised
          THEN /\ err' = [kind |-> "primary_not_found", names |-> {}, primary |-> r.name]
               /\ exit_code' = ExitSyncError
               /\ pc' = "exited"
               /\ UNCHANGED << primary, primary_body >>
          ELSE /\ primary' = r.name
               /\ primary_body' = dict_get(provider_bodies, r.name, << >>)
               /\ pc' = "primary_resolved"
               /\ UNCHANGED << err, exit_code >>
    /\ stat_reads' = [n \in NameSet(providers) |->
                        stat_reads[n] +
                        (IF n \in detect_primary_stats(providers, primary_policy, files)
                         THEN 1 ELSE 0)]
    /\ late_read' = (late_read \/
                       (written # {} /\ (primary_policy = "" \/ primary_policy = "auto")))
    /\ UNCHANGED << providers, primary_policy, files, now, dry_run, provider_contents,
                    provider_bodies, mtimes, idx, files0, written, prev, runs,
                    text_reads, normVars, serverVars >>

\* slip: the first provider is rewritten before the conflict is raised
DetectConflicts_after_write ==
    /\ pc = "primary_resolved"
    /\ LET conflicting == conflicting_keys(providers, provider_bodies, mtimes,
                                           primary, primary_body)
           pspec == providers[1]
       IN IF conflicting # {}
          THEN /\ err' = [kind |-> "conflict", names |-> conflicting, primary |-> primary]
               /\ exit_code' = ExitSyncError
               /\ pc' = "exited"
               /\ idx' = idx
               /\ files' = [files EXCEPT ![pspec.name] =
                               [exists |-> TRUE,
                                content |-> assemble_provider_content(pspec.header,
                                                primary_body, pspec.footer),
                                mtime |-> now]]
          ELSE /\ pc' = "propagating"
               /\ idx' = 1
               /\ UNCHANGED << err, exit_code, files >>
    /\ UNCHANGED << providers, primary_policy, now, dry_run, provider_contents,
                    provider_bodies, mtimes, primary, primary_body, files0, written,
                    prev, runs, readVars, normVars, serverVars >>

\* sync_command lines 153-166
DetectConflicts ==
    /\ pc = "primary_resolved"
    /\ LET conflicting == conflicting_keys(providers, provider_bodies, mtimes,
                                           primary, primary_body)
       IN IF conflicting # {}
          THEN /\ err' = [kind |-> "conflict", names |-> conflicting, primary |-> primary]
               /\ exit_code' = ExitSyncError
               /\ pc' = "exited"
               /\ idx' = idx
          ELSE /\ pc' = "propagating"
               /\ idx' = 1
               /\ UNCHANGED << err, exit_code >>
    /\ UNCHANGED << providers, primary_policy, files, now, dry_run, provider_contents,
                    provider_bodies, mtimes, primary, primary_body, files0, written,
                    prev, runs, readVars, normVars, serverVars >>

\* slip: every provider file is rewritten, changed or not
PropagateStep_always_writes ==
    /\ pc = "propagating"
    /\ idx <= Len(providers)
    /\ LET pspec   == providers[idx]
           desired == assemble_provider_content(pspec.header, primary_body, pspec.footer)
       IN IF ~dry_run
          THEN \E t \in now..MaxClock :
                 /\ t <= now + 1
                 /\ now' = t
                 /\ files' = [files EXCEPT ![pspec.name] =
                                 [exists |-> TRUE, content |-> desired, mtime |-> t]]
                 /\ written' = written \cup {pspec.name}
          ELSE UNCHANGED << files, now, written >>
    /\ idx' = idx + 1
    /\ UNCHANGED << providers, primary_policy, pc, dry_run, provider_contents,
                    provider_bodies, mtimes, primary, primary_body, err, exit_code,
                    files0, prev, runs, readVars, normVars, serverVars >>

\* slip: dry_run is not consulted
PropagateStep_ignores_dry_run ==
    /\ pc = "propagating"
    /\ idx <= Len(providers)
    /\ LET pspec   == providers[idx]
           desired == assemble_provider_content(pspec.header, primary_body, pspec.footer)
       IN IF provider_contents[pspec.name] # desired
          THEN \E t \in now..MaxClock :
                 /\ t <= now + 1
                 /\ now' = t
                 /\ files' = [files EXCEPT ![pspec.name] =
                                 [exists |-> TRUE, content |-> desired, mtime |-> t]]
                 /\ written' = written \cup {pspec.name}
          ELSE UNCHANGED << files, now, written >>
    /\ idx' = idx + 1
    /\ UNCHANGED << providers, primary_policy, pc, dry_run, provider_contents,
                    provider_bodies, mtimes, primary, primary_body, err, exit_code,
                    files0, prev, runs, readVars, normVars, serverVars >>

\* one iteration of the propagation loop, lines 169-176
PropagateStep ==
    /\ pc = "propagating"
    /\ idx <= Len(providers)
    /\ LET pspec   == providers[idx]
           desired == assemble_provider_content(pspec.header, primary_body, pspec.footer)
       IN IF provider_contents[pspec.name] # desired /\ ~dry_run
          THEN \E t \in now..MaxClock :
                 /\ t <= now + 1
                 /\ now' = t
                 /\ files' = [files EXCEPT ![pspec.name] =
                                 [exists |-> TRUE, content |-> desired, mtime |-> t]]
                 /\ written' = written \cup {pspec.name}
          ELSE UNCHANGED << files, now, written >>
    /\ idx' = idx + 1
    /\ UNCHANGED << providers, primary_policy, pc, dry_run, provider_contents,
                    provider_bodies, mtimes, primary, primary_body, err, exit_code,
                    files0, prev, runs, readVars, normVars, serverVars >>

\* slip: the sync is started over instead of returning
MainReturn_retries ==
    /\ pc = "propagating"
    /\ idx > Len(providers)
    /\ pc' = "loaded"
    /\ exit_code' = exit_code
    /\ UNCHANGED << providers, primary_policy, files, now, dry_run, provider_contents,
                    provider_bodies, mtimes, primary, primary_body, idx, err,
                    files0, written, prev, runs, readVars, normVars, serverVars >>

\* sync_command returns, main returns 0 (line 202)
MainReturn ==
    /\ pc = "propagating"
    /\ idx > Len(providers)
    /\ pc' = "exited"
    /\ exit_code' = ExitOk
    /\ UNCHANGED << providers, primary_policy, files, now, dry_run, provider_contents,
                    provider_bodies, mtimes, primary, primary_body, idx, err,
                    files0, written, prev, runs, readVars, normVars, serverVars >>

Next ==
    \/ MainConfigMissing
    \/ MainUnknownCommand
    \/ MainGather
    \/ ResolvePrimary
    \/ DetectConflicts
    \/ PropagateStep
    \/ MainReturn

Spec == Init /\ [][Next]_vars

\* sync_command is synchronous straight-line code: once called it runs to its end
InitLive ==
    /\ Init
    /\ \A n \in ProviderNames : Len(files[n].content) < MaxFileLen

SpecLive ==
    /\ InitLive
    /\ [][Next]_vars
    /\ WF_vars(ResolvePrimary)
    /\ WF_vars(DetectConflicts)
    /\ WF_vars(PropagateStep)
    /\ WF_vars(MainReturn)

\* summary of the invocation that has just ended, kept for comparison with the next
Summary ==
    IF err.kind \in UsageKinds THEN NoPrev
    ELSE [valid |-> TRUE, dry |-> dry_run, start |-> files0, end |-> files,
          err |-> err, exit_code |-> exit_code, written |-> written]

\* the process has ended; the tool is invoked again on the files it left
Rerun ==
    /\ pc = "exited"
    /\ runs < MaxRuns
    /\ runs' = runs + 1
    /\ prev' = Summary
    /\ pc' = "idle"
    /\ dry_run' = FALSE
    /\ provider_contents' = EmptyTexts(providers)
    /\ provider_bodies' = EmptyTexts(providers)
    /\ mtimes' = [n \in NameSet(providers) |-> 0]
    /\ primary' = ""
    /\ primary_body' = << >>
    /\ idx' = 0
    /\ err' = NoErr
    /\ exit_code' = -1
    /\ files0' = files
    /\ written' = {}
    /\ text_reads' = NoReads(providers)
    /\ stat_reads' = NoReads(providers)
    /\ late_read' = FALSE
    /\ UNCHANGED << providers, primary_policy, files, now, normVars, serverVars >>

NextRerun ==
    \/ Next
    \/ Rerun

SpecRerun == Init /\ [][NextRerun]_vars

\* ----- the Content Normalizer on its own -----
NormChars   == {"a", "b", NL}
NormHeaders == {<< >>, <<"a">>, <<"a", NL>>, <<"a", "b">>}
NormFooters == {<< >>, <<"b">>, <<NL, "b">>}

NormProviderLists ==
    { << [name |-> "claude", header |-> h, footer |-> f] >> :
        h \in NormHeaders, f \in NormFooters }
    \cup
    { << [name |-> "claude", header |-> h1, footer |-> f1],
         [name |-> "cursor", header |-> h2, footer |-> f2] >> :
        h1 \in NormHeaders, h2 \in NormHeaders, f1 \in NormFooters, f2 \in NormFooters }

InitNorm ==
    /\ providers \in NormProviderLists
    /\ primary_policy = "auto"
    /\ files = [n \in ProviderNames |-> AbsentFile]
    /\ SyncIdle
    /\ ServerIdle
    /\ nstep = "input"
    /\ nx \in Str(NormChars, MaxNormLen)
    /\ np = 0
    /\ nres = << >> /\ nres2 = << >> /\ nasm = << >> /\ nrt = << >>

\* strip_known_wrappers(x, providers)
NormStrip ==
    /\ nstep = "input"
    /\ nres' = strip_known_wrappers(nx, providers)
    /\ nstep' = "stripped"
    /\ UNCHANGED << providers, primary_policy, syncVars, serverVars, nx, np, nres2, nasm, nrt >>

\* strip_known_wrappers applied to its own result
NormStripAgain ==
    /\ nstep = "stripped"
    /\ nres2' = strip_known_wrappers(nres, providers)
    /\ nstep' = "restripped"
    /\ UNCHANGED << providers, primary_policy, syncVars, serverVars, nx, np, nres, nasm, nrt >>

\* assemble_provider_content(P.header, x, P.footer) for a provider P of the command
NormAssemble ==
    /\ nstep = "input"
    /\ \E i \in 1..Len(providers) :
         /\ np' = i
         /\ nasm' = assemble_provider_content(providers[i].header, nx, providers[i].footer)
    /\ nstep' = "assembled"
    /\ UNCHANGED << providers, primary_policy, syncVars, serverVars, nx, nres, nres2, nrt >>

\* strip_known_wrappers of the assembled content
NormRoundTrip ==
    /\ nstep = "assembled"
    /\ nrt' = strip_known_wrappers(nasm, providers)
    /\ nstep' = "roundtrip"
    /\ UNCHANGED << providers, primary_policy, syncVars, serverVars, nx, np, nres, nres2, nasm >>

NextNorm ==
    \/ NormStrip
    \/ NormStripAgain
    \/ NormAssemble
    \/ NormRoundTrip

SpecNorm == InitNorm /\ [][NextNorm]_vars

\* ======================= properties =======================

\* what the invocation saw on disk when it started
Content0(n) == IF n \in ProviderNames THEN read_text(files0[n]) ELSE << >>
Mtime0(n)   == IF n \in ProviderNames /\ files0[n].exists THEN files0[n].mtime ELSE 0
Body0(n)    == strip_known_wrappers(Content0(n), providers)

\* sync_command got past detect_primary, so `primary` holds the resolved primary
PrimaryResolved ==
    \/ pc \in {"primary_resolved", "propagating"}
    \/ pc = "exited" /\ err.kind \in {"none", "conflict"}

PastConflictCheck ==
    \/ pc = "propagating"
    \/ pc = "exited" /\ err.kind \in {"none", "conflict"}

NewerDivergent(P) ==
    { Q \in NameSet(providers) \ {P} :
        Body0(Q) # << >> /\ Body0(Q) # Body0(P) /\ Mtime0(Q) > Mtime0(P) }

\* C1: the sync fails with the sync-conflict error exactly when some non-primary
\* provider has a non-empty normalized body that differs from the primary's and a
\* strictly greater mtime; the error names exactly those providers and the primary.
C1_ConflictIff ==
    PastConflictCheck =>
        /\ (pc = "exited" /\ err.kind = "conflict") <=> (NewerDivergent(primary) # {})
        /\ err.kind = "conflict" =>
              /\ err.names = NewerDivergent(primary)
              /\ err.primary = primary
              /\ exit_code = ExitSyncError

C1_Witness ==
    /\ pc = "exited" /\ err.kind = "conflict"
    /\ \E Q \in err.names : files0[Q].mtime > Mtime0(primary) /\ files0[primary].exists

\* C2: a run that ends with a sync conflict has written nothing: every provider
\* file is as it was when the run started and the propagation loop never ran.
C2_NoWriteOnConflict ==
    (pc = "exited" /\ err.kind = "conflict") =>
        files = files0 /\ written = {} /\ idx = 0

C2_Witness ==
    /\ pc = "exited" /\ err.kind = "conflict"
    /\ \E i \in 1..Len(providers) :
          Content0(providers[i].name) # providers[i].header \o primary_body \o providers[i].footer

\* C3: after a successful run without dry-run every provider file, the primary's
\* included, holds header + primary_body + footer, primary_body being the
\* normalized body of the primary's content as read at the start of the run.
C3_Propagated ==
    (pc = "exited" /\ exit_code = ExitOk /\ ~dry_run) =>
        \A i \in 1..Len(providers) :
            read_text(files[providers[i].name]) =
                providers[i].header \o Body0(primary) \o providers[i].footer

C3_Witness ==
    /\ pc = "exited" /\ exit_code = ExitOk /\ ~dry_run
    /\ \E Q \in NameSet(providers) \ {primary} :
          /\ files0[Q].exists /\ Mtime0(Q) < Mtime0(primary)
          /\ Body0(Q) # << >> /\ Body0(Q) # Body0(primary)
          /\ files[Q] # files0[Q]
    /\ \E i \in 1..Len(providers) : providers[i].footer # << >>

\* C4: a successful run without dry-run, followed with no edit in between by
\* another run without dry-run, makes the second run succeed and write nothing.
C4_FixedPoint ==
    (prev.valid /\ ~prev.dry /\ prev.exit_code = ExitOk /\ files0 = prev.end
       /\ pc \notin {"idle"} /\ err.kind \notin UsageKinds /\ ~dry_run) =>
        /\ written = {}
        /\ pc = "exited" => exit_code = ExitOk

\* the providers with an existing file of greatest mtime, by position
Existing0 == { i \in 1..Len(providers) : files0[providers[i].name].exists }
Newest0 ==
    { i \in Existing0 :
        \A j \in Existing0 : files0[providers[j].name].mtime <= files0[providers[i].name].mtime }
ReferencePrimary ==
    IF Existing0 = {} THEN "claude"
    ELSE providers[CHOOSE i \in Newest0 : \A j \in Newest0 : i <= j].name

\* C5: under policy "auto" the primary is the existing provider of greatest mtime,
\* the first such in provider order on a tie, and "claude" when no file exists.
C5_AutoPrimary ==
    (PrimaryResolved /\ primary_policy = "auto") => primary = ReferencePrimary

C5_Witness ==
    /\ PrimaryResolved /\ primary_policy = "auto"
    /\ Cardinality(Newest0) = 2
    /\ primary = providers[1].name

C5_WitnessFallback ==
    PrimaryResolved /\ primary_policy = "auto" /\ Existing0 = {} /\ primary = "claude"

\* C6: with a fixed policy, a policy naming one of the command's providers is the
\* primary whatever the files are; a policy naming none ends the sync with a
\* configuration error that is not the sync-conflict outcome (the SyncError exit
\* code), and writes no file.
C6_FixedPolicy ==
    (pc = "exited" /\ err.kind \notin UsageKinds /\ primary_policy # "auto") =>
        IF primary_policy \in NameSet(providers)
        THEN primary = primary_policy
        ELSE /\ err.kind = "primary_not_found"
             /\ exit_code # ExitSyncError
             /\ exit_code # ExitOk
             /\ files = files0

\* the primary and the outcome that the files at start and the config determine
ExpectedPrimary ==
    IF primary_policy \notin {"", "auto"} THEN primary_policy ELSE ReferencePrimary

ExpectedErr ==
    IF primary_policy \notin {"", "auto"} /\ primary_policy \notin NameSet(providers)
    THEN [kind |-> "primary_not_found", names |-> {}, primary |-> primary_policy]
    ELSE IF NewerDivergent(ExpectedPrimary) # {}
         THEN [kind |-> "conflict", names |-> NewerDivergent(ExpectedPrimary),
               primary |-> ExpectedPrimary]
         ELSE NoErr

\* C7: a dry run leaves every provider file as it was, and a run ends with the
\* error and exit code that the starting files and the config determine, the
\* same with and without dry-run.
C7_DryRun ==
    /\ (dry_run /\ pc # "idle") => (files = files0 /\ written = {})
    /\ (pc = "exited" /\ err.kind \notin UsageKinds) =>
          /\ err = ExpectedErr
          /\ exit_code = (IF ExpectedErr = NoErr THEN ExitOk ELSE ExitSyncError)

C7_Witness ==
    /\ pc = "exited" /\ dry_run /\ exit_code = ExitOk
    /\ \E i \in 1..Len(providers) :
         /\ ~files0[providers[i].name].exists
         /\ providers[i].header \o primary_body \o providers[i].footer # << >>
    /\ \E i \in 1..Len(providers) :
         /\ files0[providers[i].name].exists
         /\ Content0(providers[i].name) #
               providers[i].header \o primary_body \o providers[i].footer

\* C8: the exit code is 0 when the sync succeeds, 1 when and only when a sync
\* conflict was detected, 2 when the config file is missing or the command unknown.
C8_ExitCodes ==
    pc = "exited" =>
        /\ err.kind = "none" => exit_code = ExitOk
        /\ exit_code = ExitSyncError <=> err.kind = "conflict"
        /\ err.kind \in UsageKinds => exit_code = ExitUsage

\* C9: normalizing an already normalized text changes nothing.
C9_Idempotent ==
    nstep = "restripped" => nres2 = nres

\* a non-empty wrapper of P collides with the body
Collides(body, P) ==
    \/ P.header # << >> /\ StartsWith(body, P.header)
    \/ P.footer # << >> /\ EndsWith(body, P.footer)

\* C10 as stated: any body that neither starts with P's header nor ends with P's
\* footer survives assemble-then-strip, whatever the sibling providers are.
C10_RoundTripAnySiblings ==
    (nstep = "roundtrip" /\ ~Collides(nx, providers[np])) => nrt = nx

\* provider Q recognizes one of its wrappers, exact or newline-tolerant, on text
Recognizes(Q, text) ==
    \/ /\ Q.header # << >>
       /\ StartsWith(text, Q.header) \/ StartsWith(text, rstrip_nl(Q.header) \o <<NL>>)
    \/ /\ Q.footer # << >>
       /\ EndsWith(text, Q.footer) \/ EndsWith(text, <<NL>> \o lstrip_nl(Q.footer))

NoSiblingRecognizes ==
    \A i \in 1..Len(providers) :
        i # np => ~Recognizes(providers[i], nx) /\ ~Recognizes(providers[i], nasm)

\* C10 amended: the body survives assemble-then-strip when it does not collide
\* with P's wrappers and no sibling provider recognizes one of its own wrappers
\* on the body or on the assembled content.
C10_RoundTrip ==
    (nstep = "roundtrip" /\ ~Collides(nx, providers[np]) /\ NoSiblingRecognizes) =>
        nrt = nx

C10_Witness ==
    /\ nstep = "roundtrip" /\ ~Collides(nx, providers[np]) /\ NoSiblingRecognizes
    /\ Len(providers) = 2 /\ nx # << >>
    /\ providers[np].header # << >> /\ providers[np].footer # << >>
    /\ \E i \in 1..2 : i # np /\ providers[i].header # << >> /\ providers[i].footer # << >>
    /\ nrt = nx

\* the content the Propagator wants in provider n's file
Desired0(i) == providers[i].header \o Body0(primary) \o providers[i].footer

\* C11: in a successful run only provider files whose desired content differs
\* from the content read at the start are written; a file that already holds its
\* desired content keeps its content and mtime, and no other file is written.
C11_WritesOnlyChanged ==
    (pc \in {"propagating", "exited"} /\ err.kind = "none") =>
        /\ written \subseteq NameSet(providers)
        /\ \A i \in 1..Len(providers) :
              /\ providers[i].name \in written => Content0(providers[i].name) # Desired0(i)
              /\ Content0(providers[i].name) = Desired0(i) =>
                    files[providers[i].name] = files0[providers[i].name]
        /\ \A n \in ProviderNames : n \notin written => files[n] = files0[n]

C11_Witness ==
    /\ pc = "exited" /\ exit_code = ExitOk /\ ~dry_run /\ now > StartClock
    /\ \E i \in 1..Len(providers) : providers[i].name \in written
    /\ \E i \in 1..Len(providers) :
          /\ files0[providers[i].name].exists
          /\ providers[i].name \notin written
          /\ Content0(providers[i].name) = Desired0(i)

\* C12: within one run every read of a provider file happens before the first
\* write, and each provider's content and mtime are read once.
C12_SnapshotOnce ==
    pc # "idle" =>
        /\ ~late_read
        /\ \A n \in NameSet(providers) : text_reads[n] <= 1 /\ stat_reads[n] <= 1

\* C15: under policy "auto" a run never ends in a sync conflict.
C15_AutoNeverConflicts ==
    (primary_policy = "auto" /\ pc = "exited") => err.kind # "conflict"

C15_Witness ==
    /\ primary_policy = "auto" /\ pc = "exited" /\ exit_code = ExitOk
    /\ \E Q \in NameSet(providers) \ {primary} :
          /\ Body0(Q) # << >> /\ Body0(Q) # Body0(primary)
          /\ Mtime0(Q) = Mtime0(primary)

\* C13 as stated: a sync that was loaded ends in CONFLICT_DETECTED or PROPAGATED,
\* never in any other end state.
C13_TwoEndStates ==
    (pc = "exited" /\ err.kind \notin UsageKinds) =>
        \/ err.kind = "conflict" /\ exit_code = ExitSyncError
        \/ err.kind = "none" /\ exit_code = ExitOk

\* the three ways a loaded sync ends
ConflictDetected == err.kind = "conflict" /\ exit_code = ExitSyncError /\ written = {}
Propagated       == err.kind = "none" /\ exit_code = ExitOk /\ idx > Len(providers)
PrimaryNotFound  ==
    /\ err.kind = "primary_not_found" /\ exit_code = ExitSyncError /\ written = {}
    /\ primary = "" /\ primary_policy \notin NameSet(providers) \cup {"", "auto"}

\* one step of a sync moves forward: LOADED -> PRIMARY_RESOLVED -> terminal
ForwardStep ==
    \/ pc = "idle" /\ pc' \in {"loaded", "exited"}
    \/ pc = "loaded" /\ pc' = "primary_resolved" /\ primary' # "" /\ files' = files
    \/ pc = "loaded" /\ pc' = "exited" /\ PrimaryNotFound'
    \/ pc = "primary_resolved" /\ pc' = "exited" /\ ConflictDetected' /\ files' = files
    \/ pc = "primary_resolved" /\ pc' = "propagating" /\ files' = files
    \/ pc = "propagating" /\ pc' = "propagating" /\ idx' = idx + 1
    \/ pc = "propagating" /\ pc' = "exited" /\ Propagated'

\* C13 amended: every loaded sync terminates, moves only forward through
\* LOADED -> PRIMARY_RESOLVED -> terminal with the primary resolved before any
\* conflict decision or write, and ends in exactly one of CONFLICT_DETECTED,
\* PROPAGATED or the error raised while resolving an unknown fixed primary.
C13_Lifecycle ==
    /\ [][ForwardStep]_vars
    /\ []((pc = "exited" /\ err.kind \notin UsageKinds) =>
            /\ ConflictDetected \/ Propagated \/ PrimaryNotFound
            /\ ~(ConflictDetected /\ Propagated)
            /\ ~(ConflictDetected /\ PrimaryNotFound)
            /\ ~(Propagated /\ PrimaryNotFound))
    /\ [](written # {} => (primary # "" /\ err.kind = "none"))
    /\ (pc = "loaded" ~> pc = "exited")

C13_Witness ==
    /\ pc = "exited" /\ Propagated /\ written # {} /\ primary # ""


\* ===== tool layer of gmail_mcp_server/server.py =====

\* truthiness of arguments.get("message_id") and arguments.get("position")
has_message_id(a) == a.has_message_id /\ a.message_id # ""
has_position(a)   == a.has_position /\ a.position # 0

\* _format_email_list: the map after formatting emails (nothing is cleared
\* when emails is empty)
format_email_list(emails, map) ==
    IF emails = << >> THEN map
    ELSE [i \in 1..Len(emails) |-> emails[i]]

lookup_first(position, map) == map[1]
\* self.email_position_map[position]
lookup_position(position, map) == map[position]

\* outcomes of gmail_client.list_unread_emails
ListFailures == {"auth_required", "exception"}

\* tool list_unread_emails
ListUnreadEmails ==
    /\ tool_call' = [name |-> "list_unread_emails", arguments |-> NoArguments]
    /\ map0' = email_position_map
    /\ \/ \E emails \in EmailLists :
            /\ last_list' = emails
            /\ email_position_map' =
                   IF emails = << >> THEN email_position_map
                   ELSE format_email_list(emails, email_position_map)
            /\ tool_result' = [kind |-> IF emails = << >> THEN "no_emails" ELSE "listed",
                               client_op |-> "list_unread_emails",
                               client_id |-> "", requested |-> FALSE]
       \/ \E failure \in ListFailures :
            /\ last_list' = << >>
            /\ email_position_map' = email_position_map
            /\ tool_result' = [kind |-> IF failure = "auth_required"
                                        THEN "auth_setup" ELSE "error",
                               client_op |-> "list_unread_emails",
                               client_id |-> "", requested |-> FALSE]
    /\ UNCHANGED << providers, primary_policy, syncVars, normVars >>

\* outcomes of gmail_client.delete_email / archive_email
ClientOutcomes == {"auth_raises", "success", "http_error"}

ToolError == [kind |-> "error", client_op |-> "", client_id |-> "", requested |-> FALSE]

\* what gmail_client.delete_email / archive_email(message_id) gives the handler
client_modify(name, message_id, outcome) ==
    [kind      |-> CASE outcome = "auth_raises" -> "error"
                     [] outcome = "success"     -> "done"
                     [] outcome = "http_error"  -> "failed",
     client_op |-> name,
     client_id |-> message_id,
     requested |-> outcome # "auth_raises"]

\* tools delete_email and archive_email
TargetTool(name) ==
    /\ \E a \in ToolArguments :
         /\ tool_call' = [name |-> name, arguments |-> a]
         /\ IF ~has_message_id(a) /\ ~has_position(a)
            THEN tool_result' = ToolError
            ELSE IF has_position(a) /\ ~has_message_id(a)
                    /\ a.position \notin DOMAIN email_position_map
            THEN tool_result' = ToolError
            ELSE \E outcome \in ClientOutcomes :
                   tool_result' = client_modify(name,
                       IF has_position(a) /\ ~has_message_id(a)
                       THEN lookup_position(a.position, email_position_map)
                       ELSE a.message_id,
                       outcome)
    /\ map0' = email_position_map
    /\ UNCHANGED << email_position_map, last_list >>
    /\ UNCHANGED << providers, primary_policy, syncVars, normVars >>

\* any other tool name
UnknownTool ==
    /\ tool_call' = [name |-> "unknown", arguments |-> NoArguments]
    /\ tool_result' = ToolError
    /\ map0' = email_position_map
    /\ UNCHANGED << email_position_map, last_list >>
    /\ UNCHANGED << providers, primary_policy, syncVars, normVars >>

InitServer ==
    /\ providers = << >>
    /\ primary_policy = "auto"
    /\ files = [n \in ProviderNames |-> AbsentFile]
    /\ SyncIdle
    /\ NormIdle
    /\ ServerIdle

NextServer ==
    \/ ListUnreadEmails
    \/ TargetTool("delete_email")
    \/ TargetTool("archive_email")
    \/ UnknownTool

SpecServer == InitServer /\ [][NextServer]_vars

\* C14: after any sequence of tool calls the position map is exactly
\* {i -> id of the i-th email} of the most recent list call's result, so
\* after a list call that returned no emails or failed the map is empty.
C14_MapIsLastList ==
    email_position_map = last_list

\* the position of the last call was looked up: position given, no message_id
ByPosition ==
    /\ tool_call.name \in {"delete_email", "archive_email"}
    /\ has_position(tool_call.arguments)
    /\ ~has_message_id(tool_call.arguments)

\* C16: a delete_email or archive_email call with a position and no
\* message_id returns the error text, calls no client operation, sends
\* nothing to Gmail and leaves the map as it was when the position is not a
\* key of the map; when it is a key, the client operation of that tool is
\* called with exactly the id the map holds for the position, so nothing
\* is sent to Gmail for any other id, and the map is left as it was.
C16_PositionLookup ==
    ByPosition =>
        /\ email_position_map = map0
        /\ IF tool_call.arguments.position \in DOMAIN map0
           THEN /\ tool_result.client_op = tool_call.name
                /\ tool_result.client_id = map0[tool_call.arguments.position]
           ELSE /\ tool_result.kind = "error"
                /\ tool_result.client_op = ""
                /\ ~tool_result.requested

C16_Witness ==
    /\ ByPosition
    /\ tool_call.arguments.position \in DOMAIN map0
    /\ tool_call.arguments.position > 1
    /\ tool_result.requested
    /\ tool_result.kind = "done"

C16_WitnessUnknown ==
    /\ ByPosition
    /\ map0 # << >>
    /\ tool_call.arguments.position \notin DOMAIN map0
    /\ tool_result.kind = "error"
====
